---- MODULE Spec2Model ----
(***************************************************************************)
(* State machine of the App component of src/index.tsx: the three-step     *)
(* wizard (topic, variable review, analysis workbench), the variable list  *)
(* suggested by the generative-AI collaborator, and the per-tab store of   *)
(* generated Stata code sections.                                          *)
(*                                                                         *)
(* An action is one event handler run to completion, or the continuation  *)
(* of an async handler after its await.  React state is the VARIABLES; a   *)
(* control that is rendered only in one step is a guard on that step.      *)
(***************************************************************************)
EXTENDS Integers, Sequences, FiniteSets, TLC

VARIABLES
    step,             \* useState<1|2|3>: 1 topic, 2 variables, 3 analysis
    loading,          \* useState(false): the single busy indicator
    apiKey,           \* process.env.API_KEY is set
    topic,            \* research topic text
    field,            \* research field (select)
    controlCount,     \* number of control variables to ask for
    heteroCount,      \* number of heterogeneity variables to ask for
    mechCount,        \* number of mechanism variables to ask for
    feCount,          \* number of fixed-effect variables to ask for
    variables,        \* VariableDef[]
    activeTab,        \* id of the displayed analysis tab
    generatedContent, \* Record<tab, CodeSection[]>, newest first
    fetchCalls,       \* outstanding fetchVariables awaits (their requests)
    genCalls,         \* outstanding generateStataCode awaits (their closures)
    notice,           \* what the last step showed: "none", "alert", "console"
    lastEvent,        \* history: the last step taken, the collaborator's
                      \* answer and the call it answered
    reviewed          \* history: step 2 has been shown at least once

vars == <<step, loading, apiKey, topic, field, controlCount, heteroCount,
          mechCount, feCount, variables, activeTab, generatedContent,
          fetchCalls, genCalls, notice, lastEvent, reviewed>>

-----------------------------------------------------------------------------
(* Bounds of the exploration *)

\* longest variable list the suggestion collaborator returns
MaxVars == 2
\* most generation requests alive at once, outstanding or stored as sections
MaxGen == 1
\* the same, in the specification that explores the workbench
MaxGenWorkbench == 2
\* largest count typed into a count input, in the specification of the
\* collaborator that answers as asked
MaxCount == 1
\* longest suggested list, in the specification of grouping and payload
MaxList == 3

-----------------------------------------------------------------------------
(* Values *)

TopicIntake == 1
VariableReview == 2
Workbench == 3

Roles == <<"Y", "X", "Control", "Mechanism", "Hetero", "FixedEffect">>

Tabs == <<"basic", "benchmark", "robust", "endo", "hetero">>

\* the catalog, names abridged to ASCII
analysisMethods ==
    [basic |->
        << [name |-> "Detail", cmd |-> "sum, detail"],
           [name |-> "Pearson", cmd |-> "pwcorr"],
           [name |-> "Spearman", cmd |-> "spearman"],
           [name |-> "VIF", cmd |-> "vif"],
           [name |-> "Panel unit root", cmd |-> "xtunitroot"],
           [name |-> "SW", cmd |-> "swilk"],
           [name |-> "White", cmd |-> "estat hettest"],
           [name |-> "Scatter matrix", cmd |-> "graph matrix"],
           [name |-> "Kernel density", cmd |-> "kdensity"],
           [name |-> "Missing values", cmd |-> "mdesc"],
           [name |-> "Extremes", cmd |-> "extremes"],
           [name |-> "Time trend", cmd |-> "xtline"] >>,
     benchmark |->
        << [name |-> "Two-way FE", cmd |-> "reghdfe"],
           [name |-> "Pooled OLS", cmd |-> "reg, r"],
           [name |-> "RE", cmd |-> "xtreg, re"],
           [name |-> "Stepwise", cmd |-> "stepwise"],
           [name |-> "Logit", cmd |-> "logit"],
           [name |-> "Probit", cmd |-> "probit"],
           [name |-> "Poisson", cmd |-> "poisson"],
           [name |-> "Negative binomial", cmd |-> "nbreg"],
           [name |-> "Tobit", cmd |-> "tobit"],
           [name |-> "PPML", cmd |-> "ppmlhdfe"],
           [name |-> "HDFE", cmd |-> "reghdfe"],
           [name |-> "Standardized", cmd |-> "reg, beta"] >>,
     robust |->
        << [name |-> "Replace Y", cmd |-> "Replace Y"],
           [name |-> "Replace X", cmd |-> "Replace X"],
           [name |-> "Sub-sample", cmd |-> "Sub-sample"],
           [name |-> "Winsorize 1%", cmd |-> "winsor2"],
           [name |-> "Lagged X", cmd |-> "L.X"],
           [name |-> "Cluster", cmd |-> "vce(cluster)"],
           [name |-> "Drop special", cmd |-> "drop if"],
           [name |-> "Add controls", cmd |-> "Add Controls"],
           [name |-> "Placebo", cmd |-> "Placebo Test"],
           [name |-> "Quantile", cmd |-> "qreg"],
           [name |-> "Model spec", cmd |-> "Model Spec"],
           [name |-> "Time window", cmd |-> "Time Window"] >>,
     endo |->
        << [name |-> "2SLS", cmd |-> "ivreg2"],
           [name |-> "System GMM", cmd |-> "xtabond2"],
           [name |-> "Diff GMM", cmd |-> "xtabond"],
           [name |-> "DID", cmd |-> "DID"],
           [name |-> "Multi-period DID", cmd |-> "Time-varying DID"],
           [name |-> "Event Study", cmd |-> "Event Study"],
           [name |-> "PSM", cmd |-> "psmatch2"],
           [name |-> "PSM-DID", cmd |-> "PSM-DID"],
           [name |-> "Heckman", cmd |-> "heckman"],
           [name |-> "RDD", cmd |-> "rdrobust"],
           [name |-> "SCM", cmd |-> "synth"],
           [name |-> "Lewbel IV", cmd |-> "ivreg2 (lewbel)"] >>,
     hetero |->
        << [name |-> "Group regression", cmd |-> "Group Regression"],
           [name |-> "Interaction", cmd |-> "Interaction Term"],
           [name |-> "Coefficient difference", cmd |-> "Chow/Suest"],
           [name |-> "Three-step mediation", cmd |-> "Baron & Kenny"],
           [name |-> "Sobel/Bootstrap", cmd |-> "sgmediation"],
           [name |-> "KHB", cmd |-> "khb"],
           [name |-> "Threshold", cmd |-> "xthreg"],
           [name |-> "Oaxaca-Blinder", cmd |-> "oaxaca"],
           [name |-> "Quantile heterogeneity", cmd |-> "sqreg"],
           [name |-> "Spatial", cmd |-> "Spatial"],
           [name |-> "Mod-Med", cmd |-> "Mod-Med"],
           [name |-> "U-shape", cmd |-> "c.X#c.X"] >>]

Range(s) == {s[i] : i \in 1..Len(s)}

SeqsUpTo(S, n) == UNION {[1..k -> S] : k \in 0..n}

-----------------------------------------------------------------------------
(* What the operator types and what the collaborator answers *)

Topics == {"", "t"}

Fields == {"Development Economics", "Labor Economics"}

\* the count inputs the operator edits, and the values typed into them
\* (an emptied number input gives Number("") = 0)
CountInputs == {"control"}
CountValues == {0}

\* roles, names and labels of the variables in a suggestion response
RespRoles == {"Y", "X", "Control"}
RespNames == {"v"}
RespLabels == {"l"}

\* texts typed into the name and label inputs of step 2
EditNames == {"w"}
EditLabels == {"m"}

\* the method buttons the operator clicks, by their place in the tab's catalog
MethodInputs == {1}

\* tabs the operator opens
TabInputs == {"basic", "benchmark"}

\* texts of a code-generation response; "" stands for an empty or absent text
Codes == {"", "code"}

VariableDef == [name : RespNames, label : RespLabels, role : RespRoles]

\* the answer to a suggestion request:
\*   throw      generateContent rejects (transport error)
\*   malformed  the text is not a JSON object (JSON.parse throws)
\*   empty      the text is empty or absent
\*   noList     a JSON object without a variables member
\*   list       a JSON object whose variables member is an array
FetchResponses ==
    {[kind |-> k, variables |-> <<>>] :
        k \in {"throw", "malformed", "empty", "noList"}}
    \cup {[kind |-> "list", variables |-> vs] : vs \in SeqsUpTo(VariableDef, MaxVars)}

\* the answer to a generation request: a rejection or a text
GenResponses ==
    {[kind |-> "throw", text |-> ""]} \cup {[kind |-> "text", text |-> c] : c \in Codes}

NoResp == [kind |-> "none"]

NoCall == [kind |-> "none"]

Event(op, resp, call) == [op |-> op, resp |-> resp, call |-> call]

-----------------------------------------------------------------------------
(* Initial state: the useState defaults *)

EmptyContent == [t \in Range(Tabs) |-> <<>>]

Init ==
    /\ step = TopicIntake
    /\ loading = FALSE
    /\ apiKey \in BOOLEAN
    /\ topic = ""
    /\ field = "Development Economics"
    /\ controlCount = 4
    /\ heteroCount = 1
    /\ mechCount = 1
    /\ feCount = 2
    /\ variables = <<>>
    /\ activeTab = "basic"
    /\ generatedContent = EmptyContent
    /\ fetchCalls = <<>>
    /\ genCalls = <<>>
    /\ notice = "none"
    /\ lastEvent = Event("init", NoResp, NoCall)
    /\ reviewed = FALSE

-----------------------------------------------------------------------------
(* Step 1: the topic form *)

SetTopic(t) ==
    /\ step = TopicIntake
    /\ topic' = t
    /\ notice' = "none"
    /\ lastEvent' = Event("setTopic", NoResp, NoCall)
    /\ UNCHANGED <<step, loading, apiKey, field, controlCount, heteroCount,
                   mechCount, feCount, variables, activeTab, generatedContent,
                   fetchCalls, genCalls, reviewed>>

SetField(f) ==
    /\ step = TopicIntake
    /\ field' = f
    /\ notice' = "none"
    /\ lastEvent' = Event("setField", NoResp, NoCall)
    /\ UNCHANGED <<step, loading, apiKey, topic, controlCount, heteroCount,
                   mechCount, feCount, variables, activeTab, generatedContent,
                   fetchCalls, genCalls, reviewed>>

\* mutant: the count inputs are rendered in every step
SetCountAnyStep(input, n) ==
    /\ controlCount' = IF input = "control" THEN n ELSE controlCount
    /\ feCount' = IF input = "fe" THEN n ELSE feCount
    /\ mechCount' = IF input = "mech" THEN n ELSE mechCount
    /\ heteroCount' = IF input = "hetero" THEN n ELSE heteroCount
    /\ notice' = "none"
    /\ lastEvent' = Event("setCount", NoResp, NoCall)
    /\ UNCHANGED <<step, loading, apiKey, topic, field, variables, activeTab,
                   generatedContent, fetchCalls, genCalls, reviewed>>

\* the onChange of one of the four number inputs: set...Count(Number(value))
SetCount(input, n) ==
    /\ step = TopicIntake
    /\ controlCount' = IF input = "control" THEN n ELSE controlCount
    /\ feCount' = IF input = "fe" THEN n ELSE feCount
    /\ mechCount' = IF input = "mech" THEN n ELSE mechCount
    /\ heteroCount' = IF input = "hetero" THEN n ELSE heteroCount
    /\ notice' = "none"
    /\ lastEvent' = Event("setCount", NoResp, NoCall)
    /\ UNCHANGED <<step, loading, apiKey, topic, field, variables, activeTab,
                   generatedContent, fetchCalls, genCalls, reviewed>>

\* mutant: the button is not disabled while a call is outstanding
SubmitDisabledNoLoading == topic = ""

\* disabled={!topic || loading}
SubmitDisabled == topic = "" \/ loading

\* if (!topic || !apiKey) return;
fetchVariablesReturns == topic = "" \/ ~apiKey

\* mutant: the topic is not looked at before the call is dispatched
fetchDispatchesNoTopic == ~loading /\ apiKey

\* a click on the submit button reaches the collaborator
fetchDispatches == ~SubmitDisabled /\ ~fetchVariablesReturns

\* what the prompt of fetchVariables carries
FetchRequest ==
    [topic |-> topic, field |-> field, controlCount |-> controlCount,
     mechCount |-> mechCount, heteroCount |-> heteroCount, feCount |-> feCount]

\* an outstanding call: its request, and (history) the state it was issued in
FetchCall ==
    [request |-> FetchRequest,
     atIssue |-> [step |-> step, variables |-> variables,
                  generatedContent |-> generatedContent]]

\* a click on the submit button of step 1: onClick={fetchVariables}
fetchVariables ==
    /\ step = TopicIntake
    /\ IF fetchDispatches
       THEN /\ loading' = TRUE
            /\ fetchCalls' = Append(fetchCalls, FetchCall)
            /\ lastEvent' = Event("submit", [kind |-> "issued"], NoCall)
       ELSE /\ UNCHANGED <<loading, fetchCalls, reviewed>>
            /\ lastEvent' = Event("submit",
                   [kind |-> IF SubmitDisabled THEN "disabled" ELSE "returned"],
                   NoCall)
    /\ notice' = "none"
    /\ UNCHANGED <<step, apiKey, topic, field, controlCount, heteroCount,
                   mechCount, feCount, variables, activeTab, generatedContent,
                   genCalls, reviewed>>

RemoveAt(s, i) == SubSeq(s, 1, i - 1) \o SubSeq(s, i + 1, Len(s))

\* generateContent rejects, or JSON.parse(response.text || "{}") throws
fetchThrows(resp) == resp.kind \in {"throw", "malformed"}

\* if (data.variables): an array, empty or not, is truthy
dataVariablesTruthy(resp) == resp.kind = "list"

\* the request of an answered call, and (history) the number of variables
\* held when its answer arrived
Answered(call) ==
    [topic |-> call.request.topic, field |-> call.request.field,
     controlCount |-> call.request.controlCount,
     mechCount |-> call.request.mechCount,
     heteroCount |-> call.request.heteroCount,
     feCount |-> call.request.feCount,
     retained |-> Len(variables)]

\* mutant: the suggested variables are added to the retained ones,
\* setVariables([...variables, ...data.variables])
fetchVariablesResumeMerging(i, resp) ==
    /\ i \in 1..Len(fetchCalls)
    /\ fetchCalls' = RemoveAt(fetchCalls, i)
    /\ IF fetchThrows(resp)
       THEN /\ notice' = "alert"
            /\ UNCHANGED <<variables, step>>
       ELSE /\ notice' = "none"
            /\ IF dataVariablesTruthy(resp)
               THEN /\ variables' = variables \o resp.variables
                    /\ step' = VariableReview
               ELSE UNCHANGED <<variables, step>>
    /\ loading' = FALSE
    /\ lastEvent' = Event("fetchDone", resp, Answered(fetchCalls[i]))
    /\ reviewed' = (reviewed \/ step' = VariableReview)
    /\ UNCHANGED <<apiKey, topic, field, controlCount, heteroCount, mechCount,
                   feCount, activeTab, generatedContent, genCalls>>

\* mutant: the list is stored but the step is not advanced
fetchVariablesResumeNoStep(i, resp) ==
    /\ i \in 1..Len(fetchCalls)
    /\ fetchCalls' = RemoveAt(fetchCalls, i)
    /\ IF fetchThrows(resp)
       THEN /\ notice' = "alert"
            /\ UNCHANGED <<variables, step>>
       ELSE /\ notice' = "none"
            /\ IF dataVariablesTruthy(resp)
               THEN /\ variables' = resp.variables
                    /\ UNCHANGED step
               ELSE UNCHANGED <<variables, step>>
    /\ loading' = FALSE
    /\ lastEvent' = Event("fetchDone", resp, Answered(fetchCalls[i]))
    /\ reviewed' = (reviewed \/ step' = VariableReview)
    /\ UNCHANGED <<apiKey, topic, field, controlCount, heteroCount, mechCount,
                   feCount, activeTab, generatedContent, genCalls>>

\* the continuation of fetchVariables after its await: try, catch, finally
fetchVariablesResume(i, resp) ==
    /\ i \in 1..Len(fetchCalls)
    /\ fetchCalls' = RemoveAt(fetchCalls, i)
    /\ IF fetchThrows(resp)
       THEN /\ notice' = "alert"
            /\ UNCHANGED <<variables, step>>
       ELSE /\ notice' = "none"
            /\ IF dataVariablesTruthy(resp)
               THEN /\ variables' = resp.variables
                    /\ step' = VariableReview
               ELSE UNCHANGED <<variables, step>>
    /\ loading' = FALSE
    /\ lastEvent' = Event("fetchDone", resp, Answered(fetchCalls[i]))
    /\ reviewed' = (reviewed \/ step' = VariableReview)
    /\ UNCHANGED <<apiKey, topic, field, controlCount, heteroCount, mechCount,
                   feCount, activeTab, generatedContent, genCalls>>

-----------------------------------------------------------------------------
(* Step 2: the variable review *)

\* the variable an edit of the review form was made on
EditOf(i) == [kind |-> "edit", index |-> i]

\* mutant: the edited variable is taken out of the list and pushed back,
\* [...variables.filter(item => item !== v), {...v, name}]
RenameMovingLast(i, n) ==
    /\ step = VariableReview
    /\ i \in 1..Len(variables)
    /\ variables' = RemoveAt(variables, i) \o <<[variables[i] EXCEPT !.name = n]>>
    /\ notice' = "none"
    /\ lastEvent' = Event("rename", NoResp, EditOf(i))
    /\ UNCHANGED <<step, loading, apiKey, topic, field, controlCount,
                   heteroCount, mechCount, feCount, activeTab,
                   generatedContent, fetchCalls, genCalls, reviewed>>

\* onChange of the name input of variable i
Rename(i, n) ==
    /\ step = VariableReview
    /\ i \in 1..Len(variables)
    /\ variables' = [variables EXCEPT ![i].name = n]
    /\ notice' = "none"
    /\ lastEvent' = Event("rename", NoResp, EditOf(i))
    /\ UNCHANGED <<step, loading, apiKey, topic, field, controlCount,
                   heteroCount, mechCount, feCount, activeTab,
                   generatedContent, fetchCalls, genCalls, reviewed>>

\* mutant: the label input is also rendered in the sidebar of the workbench
RelabelAnyStage(i, l) ==
    /\ step \in {VariableReview, Workbench}
    /\ i \in 1..Len(variables)
    /\ variables' = [variables EXCEPT ![i].label = l]
    /\ notice' = "none"
    /\ lastEvent' = Event("relabel", NoResp, EditOf(i))
    /\ UNCHANGED <<step, loading, apiKey, topic, field, controlCount,
                   heteroCount, mechCount, feCount, activeTab,
                   generatedContent, fetchCalls, genCalls, reviewed>>

\* onChange of the label input of variable i
Relabel(i, l) ==
    /\ step = VariableReview
    /\ i \in 1..Len(variables)
    /\ variables' = [variables EXCEPT ![i].label = l]
    /\ notice' = "none"
    /\ lastEvent' = Event("relabel", NoResp, EditOf(i))
    /\ UNCHANGED <<step, loading, apiKey, topic, field, controlCount,
                   heteroCount, mechCount, feCount, activeTab,
                   generatedContent, fetchCalls, genCalls, reviewed>>

\* mutant: the return button also clears the variable list
ReturnClearing ==
    /\ step = VariableReview
    /\ step' = TopicIntake
    /\ variables' = <<>>
    /\ notice' = "none"
    /\ lastEvent' = Event("return", NoResp, NoCall)
    /\ UNCHANGED <<loading, apiKey, topic, field, controlCount, heteroCount,
                   mechCount, feCount, activeTab, generatedContent,
                   fetchCalls, genCalls, reviewed>>

\* the return button: onClick={() => setStep(1)}
Return ==
    /\ step = VariableReview
    /\ step' = TopicIntake
    /\ notice' = "none"
    /\ lastEvent' = Event("return", NoResp, NoCall)
    /\ UNCHANGED <<loading, apiKey, topic, field, controlCount, heteroCount,
                   mechCount, feCount, variables, activeTab, generatedContent,
                   fetchCalls, genCalls, reviewed>>

\* the confirm button: onClick={() => setStep(3)}
Confirm ==
    /\ step = VariableReview
    /\ step' = Workbench
    /\ notice' = "none"
    /\ lastEvent' = Event("confirm", NoResp, NoCall)
    /\ UNCHANGED <<loading, apiKey, topic, field, controlCount, heteroCount,
                   mechCount, feCount, variables, activeTab, generatedContent,
                   fetchCalls, genCalls, reviewed>>

-----------------------------------------------------------------------------
(* Step 3: the workbench *)

\* a tab button: onClick={() => setActiveTab(tab.id)}
SetActiveTab(t) ==
    /\ step = Workbench
    /\ activeTab' = t
    /\ notice' = "none"
    /\ lastEvent' = Event("setActiveTab", NoResp, NoCall)
    /\ UNCHANGED <<step, loading, apiKey, topic, field, controlCount,
                   heteroCount, mechCount, feCount, variables,
                   generatedContent, fetchCalls, genCalls, reviewed>>

\* variables.filter(v => v.role === role)
FilterRole(vs, role) == SelectSeq(vs, LAMBDA v : v.role = role)

\* mutant: a role without variables still gets its heading
groupByRoleKeepingEmpty(vs) ==
    [r \in 1..Len(Roles) |-> [role |-> Roles[r], roleVars |-> FilterRole(vs, Roles[r])]]

\* the buckets the review renders: [...six roles].map(role => { roleVars =
\* variables.filter(v => v.role === role); if (roleVars.length === 0) return null; ... })
groupByRole(vs) ==
    SelectSeq([r \in 1..Len(Roles) |->
                  [role |-> Roles[r], roleVars |-> FilterRole(vs, Roles[r])]],
              LAMBDA bucket : bucket.roleVars # <<>>)

\* mutant: .map(v => v.label)
MapLabel(vs) == [i \in 1..Len(vs) |-> vs[i].label]

\* .map(v => v.name)
MapName(vs) == [i \in 1..Len(vs) |-> vs[i].name]

\* .join(" ")
RECURSIVE Join(_)
Join(names) ==
    IF names = <<>> THEN ""
    ELSE IF Len(names) = 1 THEN names[1]
    ELSE names[1] \o " " \o Join(Tail(names))

\* variables.find(v => v.role === role)?.name || fallback
FindName(vs, role, fallback) ==
    LET found == FilterRole(vs, role)
    IN  IF found = <<>> \/ found[1].name = "" THEN fallback ELSE found[1].name

\* the variable slots of the prompt of generateStataCode
Prompt(method, subType) ==
    [topic |-> topic,
     y |-> FindName(variables, "Y", "y"),
     x |-> FindName(variables, "X", "x"),
     controls |-> Join(MapName(FilterRole(variables, "Control"))),
     mechs |-> Join(MapName(FilterRole(variables, "Mechanism"))),
     heteros |-> Join(MapName(FilterRole(variables, "Hetero"))),
     fes |-> Join(MapName(FilterRole(variables, "FixedEffect"))),
     method |-> method,
     subType |-> subType]

RECURSIVE SumLen(_, _)
SumLen(content, tabs) ==
    IF tabs = <<>> THEN 0
    ELSE Len(content[Head(tabs)]) + SumLen(content, Tail(tabs))

\* sections stored, over all tabs
TotalSections == SumLen(generatedContent, Tabs)

\* a method button of the active tab:
\* onClick={() => generateStataCode(method.name, method.cmd)}, up to the await;
\* bound caps the requests alive at once
generateStataCodeBounded(m, bound) ==
    /\ step = Workbench
    /\ m \in 1..Len(analysisMethods[activeTab])
    /\ Len(genCalls) + TotalSections < bound
    /\ LET method == analysisMethods[activeTab][m]
       IN  genCalls' = Append(genCalls,
               [method |-> method.name,
                activeTab |-> activeTab,
                prompt |-> Prompt(method.name, method.cmd)])
    /\ loading' = TRUE
    /\ notice' = "none"
    /\ lastEvent' = Event("generate", NoResp, NoCall)
    /\ UNCHANGED <<step, apiKey, topic, field, controlCount, heteroCount,
                   mechCount, feCount, variables, activeTab, generatedContent,
                   fetchCalls, reviewed>>

generateStataCode(m) == generateStataCodeBounded(m, MaxGen)

\* const newSection: CodeSection = {...}
newSection(method, code) ==
    [title |-> method, code |-> code,
     explanation |-> "Generated code for " \o method \o "."]

\* generateContent rejects
generateThrows(resp) == resp.kind = "throw"

\* mutant: setLoading(false) sits at the end of the try block, not in finally
generateStataCodeResumeNoFinally(i, resp) ==
    /\ i \in 1..Len(genCalls)
    /\ genCalls' = RemoveAt(genCalls, i)
    /\ IF generateThrows(resp)
       THEN /\ notice' = "console"
            /\ UNCHANGED <<generatedContent, loading>>
       ELSE /\ notice' = "none"
            /\ generatedContent' =
                 [generatedContent EXCEPT ![genCalls[i].activeTab] =
                     <<newSection(genCalls[i].method, resp.text)>> \o @]
            /\ loading' = FALSE
    /\ lastEvent' = Event("generateDone", resp, genCalls[i])
    /\ UNCHANGED <<step, apiKey, topic, field, controlCount, heteroCount,
                   mechCount, feCount, variables, activeTab, fetchCalls, reviewed>>

\* mutant: the section is put after the stored ones, [...prev[activeTab], newSection]
generateStataCodeResumeAppending(i, resp) ==
    /\ i \in 1..Len(genCalls)
    /\ genCalls' = RemoveAt(genCalls, i)
    /\ IF generateThrows(resp)
       THEN /\ notice' = "console"
            /\ UNCHANGED generatedContent
       ELSE /\ notice' = "none"
            /\ generatedContent' =
                 [generatedContent EXCEPT ![genCalls[i].activeTab] =
                     @ \o <<newSection(genCalls[i].method, resp.text)>>]
    /\ loading' = FALSE
    /\ lastEvent' = Event("generateDone", resp, genCalls[i])
    /\ UNCHANGED <<step, apiKey, topic, field, controlCount, heteroCount,
                   mechCount, feCount, variables, activeTab, fetchCalls, reviewed>>

\* mutant: the section replaces the stored ones, [activeTab]: [newSection]
generateStataCodeResumeReplacing(i, resp) ==
    /\ i \in 1..Len(genCalls)
    /\ genCalls' = RemoveAt(genCalls, i)
    /\ IF generateThrows(resp)
       THEN /\ notice' = "console"
            /\ UNCHANGED generatedContent
       ELSE /\ notice' = "none"
            /\ generatedContent' =
                 [generatedContent EXCEPT ![genCalls[i].activeTab] =
                     <<newSection(genCalls[i].method, resp.text)>>]
    /\ loading' = FALSE
    /\ lastEvent' = Event("generateDone", resp, genCalls[i])
    /\ UNCHANGED <<step, apiKey, topic, field, controlCount, heteroCount,
                   mechCount, feCount, variables, activeTab, fetchCalls, reviewed>>

\* mutant: the update reads the tab active when the response arrives
generateStataCodeResumeCurrentTab(i, resp) ==
    /\ i \in 1..Len(genCalls)
    /\ genCalls' = RemoveAt(genCalls, i)
    /\ IF generateThrows(resp)
       THEN /\ notice' = "console"
            /\ UNCHANGED generatedContent
       ELSE /\ notice' = "none"
            /\ generatedContent' =
                 [generatedContent EXCEPT ![activeTab] =
                     <<newSection(genCalls[i].method, resp.text)>> \o @]
    /\ loading' = FALSE
    /\ lastEvent' = Event("generateDone", resp, genCalls[i])
    /\ UNCHANGED <<step, apiKey, topic, field, controlCount, heteroCount,
                   mechCount, feCount, variables, activeTab, fetchCalls, reviewed>>

\* the continuation of generateStataCode after its await: try, catch, finally
generateStataCodeResume(i, resp) ==
    /\ i \in 1..Len(genCalls)
    /\ genCalls' = RemoveAt(genCalls, i)
    /\ IF generateThrows(resp)
       THEN /\ notice' = "console"
            /\ UNCHANGED generatedContent
       ELSE /\ notice' = "none"
            /\ generatedContent' =
                 [generatedContent EXCEPT ![genCalls[i].activeTab] =
                     <<newSection(genCalls[i].method, resp.text)>> \o @]
    /\ loading' = FALSE
    /\ lastEvent' = Event("generateDone", resp, genCalls[i])
    /\ UNCHANGED <<step, apiKey, topic, field, controlCount, heteroCount,
                   mechCount, feCount, variables, activeTab, fetchCalls, reviewed>>

-----------------------------------------------------------------------------

Next ==
    \/ \E t \in Topics : SetTopic(t)
    \/ \E f \in Fields : SetField(f)
    \/ \E input \in CountInputs, n \in CountValues : SetCount(input, n)
    \/ fetchVariables
    \/ \E i \in 1..Len(fetchCalls), resp \in FetchResponses :
           fetchVariablesResume(i, resp)
    \/ \E i \in 1..Len(variables), n \in EditNames : Rename(i, n)
    \/ \E i \in 1..Len(variables), l \in EditLabels : Relabel(i, l)
    \/ Return
    \/ Confirm
    \/ \E t \in TabInputs : SetActiveTab(t)
    \/ \E m \in MethodInputs : generateStataCode(m)
    \/ \E i \in 1..Len(genCalls), resp \in GenResponses :
           generateStataCodeResume(i, resp)

Spec == Init /\ [][Next]_vars

-----------------------------------------------------------------------------
(* The workbench explored further: several generation requests alive at     *)
(* once, reached through a review of one suggested list.                    *)

\* the list the collaborator suggests in this specification
WorkbenchList ==
    << [name |-> "v", label |-> "l", role |-> "Y"],
       [name |-> "v", label |-> "l", role |-> "X"] >>

WorkbenchFetchResponses ==
    {[kind |-> "throw", variables |-> <<>>],
     [kind |-> "list", variables |-> WorkbenchList]}

NextWorkbench ==
    \/ \E t \in Topics : SetTopic(t)
    \/ \E f \in Fields : SetField(f)
    \/ \E input \in CountInputs, n \in CountValues : SetCount(input, n)
    \/ fetchVariables
    \/ \E i \in 1..Len(fetchCalls), resp \in WorkbenchFetchResponses :
           fetchVariablesResume(i, resp)
    \/ \E i \in 1..Len(variables), n \in EditNames : Rename(i, n)
    \/ \E i \in 1..Len(variables), l \in EditLabels : Relabel(i, l)
    \/ Return
    \/ Confirm
    \/ \E t \in TabInputs : SetActiveTab(t)
    \/ \E m \in MethodInputs : generateStataCodeBounded(m, MaxGenWorkbench)
    \/ \E i \in 1..Len(genCalls), resp \in GenResponses :
           generateStataCodeResume(i, resp)

SpecWorkbench == Init /\ [][NextWorkbench]_vars

-----------------------------------------------------------------------------
(* The first suggestion, by a collaborator that answers as the prompt asks: *)
(* one Y, one X, and of each other role the number the request names.       *)

StubCountInputs == {"control", "fe", "mech", "hetero"}
StubCountValues == 0..MaxCount

Repeat(x, n) == [k \in 1..n |-> x]

StubVariable(role) == [name |-> "v", label |-> "l", role |-> role]

\* "1 Y, 1 X, ${controlCount} Controls, ${mechCount} Mechanism variables,
\* ${heteroCount} Heterogeneity variables, ${feCount} Fixed Effects"
StubList(request) ==
    <<StubVariable("Y"), StubVariable("X")>>
       \o Repeat(StubVariable("Control"), request.controlCount)
       \o Repeat(StubVariable("Mechanism"), request.mechCount)
       \o Repeat(StubVariable("Hetero"), request.heteroCount)
       \o Repeat(StubVariable("FixedEffect"), request.feCount)

Reverse(s) == [k \in 1..Len(s) |-> s[Len(s) + 1 - k]]

\* the collaborator is free in the order of the list
StubResponses(request) ==
    {[kind |-> "list", variables |-> vs] :
        vs \in {StubList(request), Reverse(StubList(request))}}

NextStub ==
    \/ \E t \in Topics : SetTopic(t)
    \/ \E input \in StubCountInputs, n \in StubCountValues : SetCount(input, n)
    \/ fetchVariables
    \/ \E i \in 1..Len(fetchCalls) :
           \E resp \in StubResponses(fetchCalls[i].request) :
               fetchVariablesResume(i, resp)
    \/ Confirm

SpecStub == Init /\ [][NextStub]_vars

-----------------------------------------------------------------------------
(* Grouping and payload: the collaborator suggests lists over all six roles *)
(* with two names, and the operator may clear a name in the review.         *)

TaxonomyNames == {"year", "city"}
TaxonomyEditNames == {""}

TaxonomyVariableDef == [name : TaxonomyNames, label : RespLabels, role : Range(Roles)]

TaxonomyResponses ==
    {[kind |-> "list", variables |-> vs] : vs \in SeqsUpTo(TaxonomyVariableDef, MaxList)}

NextTaxonomy ==
    \/ \E t \in Topics : SetTopic(t)
    \/ fetchVariables
    \/ \E i \in 1..Len(fetchCalls), resp \in TaxonomyResponses :
           fetchVariablesResume(i, resp)
    \/ \E i \in 1..Len(variables), n \in TaxonomyEditNames : Rename(i, n)
    \/ Confirm
    \/ \E m \in MethodInputs : generateStataCode(m)
    \/ \E i \in 1..Len(genCalls), resp \in GenResponses :
           generateStataCodeResume(i, resp)

SpecTaxonomy == Init /\ [][NextTaxonomy]_vars

-----------------------------------------------------------------------------
(* Properties *)

CountRole(vs, role) == Len(FilterRole(vs, role))

\* a suggestion exchange that failed: transport error, malformed response,
\* response without a variable list, or an empty variable list
FetchFailed(resp) ==
    \/ resp.kind \in {"throw", "malformed", "empty", "noList"}
    \/ resp.kind = "list" /\ resp.variables = <<>>

\* a generation exchange that failed: transport error or empty response
GenFailed(resp) == resp.kind = "throw" \/ resp.text = ""

\* C1: every change of the stage is TopicIntake -> VariableReview at the
\* completion of a suggestion call, VariableReview -> TopicIntake by the
\* return button, or VariableReview -> Workbench by the confirm button; so
\* there is no step TopicIntake -> Workbench and no step out of Workbench.
C1_StageTransitions ==
    [][step' # step =>
          \/ step = TopicIntake /\ step' = VariableReview
               /\ lastEvent'.op = "fetchDone"
          \/ step = VariableReview /\ step' = TopicIntake
               /\ lastEvent'.op = "return"
          \/ step = VariableReview /\ step' = Workbench
               /\ lastEvent'.op = "confirm"]_vars

\* C1 witness: the workbench was reached through the review, and a
\* generation call has completed in it with the stage still Workbench.
C1_Witness ==
    /\ step = Workbench
    /\ reviewed
    /\ lastEvent.op = "generateDone"

\* C2: right after the step TopicIntake -> VariableReview the variable list
\* is not empty (an empty list in the response does not advance the stage).
C2_AdvanceOnlyNonEmpty ==
    [][(step = TopicIntake /\ step' = VariableReview) => variables' # <<>>]_vars

\* C3 as stated: whenever the stage is TopicIntake the variable list is empty.
C3_EmptyInTopicIntake == step = TopicIntake => variables = <<>>

\* C3 as amended: whenever the stage is TopicIntake and step 2 has not been
\* shown yet, the variable list is empty (after a return it is the list
\* kept from the review).
C3_EmptyBeforeFirstReview ==
    (step = TopicIntake /\ ~reviewed) => variables = <<>>

\* C3 witness: still on the topic form, never reviewed, after a suggestion
\* call has completed without a list.
C3_Witness ==
    /\ step = TopicIntake
    /\ ~reviewed
    /\ lastEvent.op = "fetchDone"

\* C4: the return button changes the stage only: variables (renamed and
\* relabelled as they are), topic, field, the four counts, the active tab
\* and the generated content are unchanged.
C4_ReturnKeepsTaxonomy ==
    [][(step = VariableReview /\ step' = TopicIntake) =>
          UNCHANGED <<variables, topic, field, controlCount, heteroCount,
                      mechCount, feCount, activeTab, generatedContent>>]_vars

\* C4 witness: back on the topic form through the return button, holding a
\* list with a renamed and a relabelled variable.
C4_Witness ==
    /\ step = TopicIntake
    /\ lastEvent.op = "return"
    /\ \E i \in 1..Len(variables) : variables[i].name \in EditNames
    /\ \E i \in 1..Len(variables) : variables[i].label \in EditLabels

\* C5: whenever the stage is VariableReview or Workbench the variable list
\* has exactly one variable of role Y and exactly one of role X.
C5_OneYOneX ==
    step \in {VariableReview, Workbench} =>
        CountRole(variables, "Y") = 1 /\ CountRole(variables, "X") = 1

\* C6: whenever the stage is Workbench the variable list is not empty.
C6_WorkbenchNonEmpty == step = Workbench => variables # <<>>

\* C7: a click on submit while the topic is empty dispatches no suggestion
\* call and leaves the stage at TopicIntake, and variables, generated
\* content and the busy indicator as they were.
C7_EmptyTopicNoDispatch ==
    [][(lastEvent'.op = "submit" /\ topic = "") =>
          /\ fetchCalls' = fetchCalls
          /\ step' = TopicIntake
          /\ UNCHANGED <<variables, generatedContent, loading>>]_vars

\* C7 witness: submit was clicked with an empty topic.
C7_Witness ==
    /\ lastEvent.op = "submit"
    /\ topic = ""
    /\ fetchCalls = <<>>

\* C8: when a suggestion exchange fails, stage, variables and generated
\* content are as they were when the call that completes was issued.
C8_FailedFetchNoMutation ==
    [][(lastEvent'.op = "fetchDone" /\ FetchFailed(lastEvent'.resp)) =>
          \A i \in 1..Len(fetchCalls) :
              fetchCalls' = RemoveAt(fetchCalls, i) =>
                  /\ step' = fetchCalls[i].atIssue.step
                  /\ variables' = fetchCalls[i].atIssue.variables
                  /\ generatedContent' =
                         fetchCalls[i].atIssue.generatedContent]_vars

\* C9: when a generation exchange fails, by a rejection or an empty text,
\* the sequence of every tab is as before and the busy indicator is false.
C9_FailedGenerateNoSection ==
    [][(lastEvent'.op = "generateDone" /\ GenFailed(lastEvent'.resp)) =>
          generatedContent' = generatedContent /\ loading' = FALSE]_vars

\* C10: every failure raises a user-visible notice in the step that detects
\* it: a submit with an empty topic, a failed suggestion exchange, a failed
\* generation exchange.
C10_FailureRaisesNotice ==
    [][(\/ lastEvent'.op = "submit" /\ topic = ""
        \/ lastEvent'.op = "fetchDone" /\ FetchFailed(lastEvent'.resp)
        \/ lastEvent'.op = "generateDone" /\ GenFailed(lastEvent'.resp))
          => notice' = "alert"]_vars

-----------------------------------------------------------------------------
\* C11: calls of one kind are serialized: in every reachable state at most
\* one variable-suggestion call and at most one code-generation call is
\* outstanding.
C11_CallsSerialized ==
    Len(fetchCalls) <= 1 /\ Len(genCalls) <= 1

\* C12: in every reachable state in which a suggestion or generation call
\* has been issued and not yet resolved, the busy indicator is true.
C12_BusyWhileOutstanding ==
    (fetchCalls # <<>> \/ genCalls # <<>>) => loading

\* C13: the busy indicator is cleared on every exit path of a call: in every
\* reachable state in which no call is outstanding, the busy indicator is
\* false.
C13_IdleMeansNotBusy ==
    (fetchCalls = <<>> /\ genCalls = <<>>) => ~loading

\* a generation call threw, and nothing is outstanding any more
C13_Witness ==
    /\ lastEvent.op = "generateDone"
    /\ generateThrows(lastEvent.resp)
    /\ fetchCalls = <<>>
    /\ genCalls = <<>>
    /\ ~loading

\* C14: a successful generation completion prepends exactly one section,
\* titled with the method name, to the category of the call: the new
\* sequence is the new section followed by the whole previous sequence
\* (nothing is deduplicated), and the other categories are unchanged.
C14_CompletionPrepends ==
    [][(lastEvent'.op = "generateDone" /\ ~GenFailed(lastEvent'.resp))
          => LET tab == lastEvent'.call.activeTab
             IN /\ Len(generatedContent'[tab]) = Len(generatedContent[tab]) + 1
                /\ Head(generatedContent'[tab]).title = lastEvent'.call.method
                /\ Tail(generatedContent'[tab]) = generatedContent[tab]
                /\ \A t \in Range(Tabs) \ {tab} :
                       generatedContent'[t] = generatedContent[t]]_vars

\* two calls for the same method and category have completed: two entries
\* with the same title, the later one at the head
C14_Witness ==
    /\ lastEvent.op = "generateDone"
    /\ ~GenFailed(lastEvent.resp)
    /\ \E t \in Range(Tabs) :
          /\ Len(generatedContent[t]) = 2
          /\ generatedContent[t][1].title = generatedContent[t][2].title
          /\ generatedContent[t][1].title = lastEvent.call.method
          /\ generatedContent[t][1].code = lastEvent.resp.text

IsSuffix(old, new) ==
    /\ Len(old) <= Len(new)
    /\ SubSeq(new, Len(new) - Len(old) + 1, Len(new)) = old

\* C15: the code store only grows: across every step, and in each of the
\* five categories, the previous sequence is a suffix of the new one.
C15_StoreOnlyGrows ==
    [][\A t \in Range(Tabs) :
          IsSuffix(generatedContent[t], generatedContent'[t])]_vars

\* a section has just been added to a store that already held one
C15_Witness ==
    /\ lastEvent.op = "generateDone"
    /\ ~generateThrows(lastEvent.resp)
    /\ TotalSections = 2

\* the place of variable i among the variables of its role
PositionInBucket(vs, i) ==
    Cardinality({j \in 1..i : vs[j].role = vs[i].role})

\* C16: a rename or relabel of one variable changes only that variable's
\* name (rename) or label (relabel): its role, its index, its position in
\* its role bucket, the number of variables and every other variable are
\* unchanged.
C16_EditTouchesOneField ==
    [][lastEvent'.op \in {"rename", "relabel"}
          => LET i == lastEvent'.call.index
             IN /\ Len(variables') = Len(variables)
                /\ i \in 1..Len(variables)
                /\ \A j \in 1..Len(variables) :
                       j # i => variables'[j] = variables[j]
                /\ variables'[i].role = variables[i].role
                /\ PositionInBucket(variables', i) = PositionInBucket(variables, i)
                /\ lastEvent'.op = "rename" =>
                       variables'[i].label = variables[i].label
                /\ lastEvent'.op = "relabel" =>
                       variables'[i].name = variables[i].name]_vars

\* the first of two variables of one role has been renamed
C16_Witness ==
    /\ lastEvent.op = "rename"
    /\ lastEvent.call.index = 1
    /\ Len(variables) = 2
    /\ variables[1].role = variables[2].role
    /\ variables[1].name = "w"
    /\ variables[2].name = "v"

\* C17: the role configuration is mutable only in TopicIntake: in every step
\* taken from a state with stage VariableReview or Workbench the four counts
\* are unchanged.
C17_CountsFixedAfterIntake ==
    [][(step \in {VariableReview, Workbench})
          => (UNCHANGED <<controlCount, feCount, mechCount, heteroCount>>)]_vars

\* a count was edited in the intake and steps were then taken in the
\* workbench
C17_Witness ==
    /\ step = Workbench
    /\ controlCount = 0
    /\ lastEvent.op = "generateDone"

\* C18: in every reachable state controlCount is in 1..20, feCount in 0..5,
\* mechCount in 1..5 and heteroCount in 0..5, whatever the operator submits.
C18_CountsInRange ==
    /\ controlCount \in 1..20
    /\ feCount \in 0..5
    /\ mechCount \in 1..5
    /\ heteroCount \in 0..5

\* an edit of the name or of the label of variable i can be made
CanRename(i) == \A n \in EditNames : ENABLED Rename(i, n)
CanRelabel(i) == \A l \in EditLabels : ENABLED Relabel(i, l)

InRange(request) ==
    /\ request.controlCount \in 1..20
    /\ request.feCount \in 0..5
    /\ request.mechCount \in 1..5
    /\ request.heteroCount \in 0..5

\* C20: for every role configuration within the ranges, when the
\* collaborator returns exactly one Y, one X and the requested number of
\* Control, Mechanism, Hetero and FixedEffect variables, then after the call
\* completes the stage is VariableReview and the taxonomy has exactly
\* 2 + controlCount + mechCount + heteroCount + feCount entries, with bucket
\* sizes 1, 1, controlCount, mechCount, heteroCount and feCount (the counts
\* being those of the request).
C20_StubAnswerStoredWhole ==
    [][(/\ lastEvent'.op = "fetchDone"
        /\ InRange(lastEvent'.call)
        /\ lastEvent'.resp \in StubResponses(lastEvent'.call))
          => LET request == lastEvent'.call
             IN /\ step' = VariableReview
                /\ Len(variables') = 2 + request.controlCount + request.mechCount
                                       + request.heteroCount + request.feCount
                /\ CountRole(variables', "Y") = 1
                /\ CountRole(variables', "X") = 1
                /\ CountRole(variables', "Control") = request.controlCount
                /\ CountRole(variables', "Mechanism") = request.mechCount
                /\ CountRole(variables', "Hetero") = request.heteroCount
                /\ CountRole(variables', "FixedEffect") = request.feCount]_vars

\* the call for 4 controls, 1 mechanism, no heterogeneity variable and 2
\* fixed effects has completed
C20_Witness ==
    /\ lastEvent.op = "fetchDone"
    /\ InRange(lastEvent.call)
    /\ lastEvent.call.controlCount = 4
    /\ lastEvent.call.heteroCount = 0
    /\ lastEvent.call.feCount = 2
    /\ step = VariableReview
    /\ Len(variables) = 9
    /\ variables[1].role = "FixedEffect"

\* the place of a role in the fixed order of the roles
RoleIndex(role) == CHOOSE r \in 1..Len(Roles) : Roles[r] = role

\* the indices, in the variables sequence, of the variables of a role
PositionsOf(vs, role) == {k \in 1..Len(vs) : vs[k].role = role}

\* the n-th smallest element of a set of indices
NthOf(positions, n) ==
    CHOOSE k \in positions : Cardinality({j \in positions : j <= k}) = n

\* C21: grouping by role lists the buckets in the fixed order Y, X, Control,
\* Mechanism, Hetero, FixedEffect whatever the order of the variables
\* sequence; within a bucket the variables appear in their order in the
\* variables sequence; every variable appears in exactly one bucket; and a
\* role with no variables produces no bucket.
C21_GroupingByRole ==
    step = VariableReview =>
        LET buckets == groupByRole(variables)
        IN  /\ \A a, b \in 1..Len(buckets) :
                   a < b => RoleIndex(buckets[a].role) < RoleIndex(buckets[b].role)
            /\ \A b \in 1..Len(buckets) :
                   LET positions == PositionsOf(variables, buckets[b].role)
                   IN  /\ positions # {}
                       /\ Len(buckets[b].roleVars) = Cardinality(positions)
                       /\ \A n \in 1..Len(buckets[b].roleVars) :
                              buckets[b].roleVars[n] = variables[NthOf(positions, n)]
            /\ \A k \in 1..Len(variables) :
                   Cardinality({b \in 1..Len(buckets) :
                                   buckets[b].role = variables[k].role}) = 1

\* a fixed effect suggested before the Y variable: the Y bucket comes first
C21_Witness ==
    /\ step = VariableReview
    /\ Len(variables) = 2
    /\ variables[1].role = "FixedEffect"
    /\ variables[2].role = "Y"
    /\ Len(groupByRole(variables)) = 2
    /\ groupByRole(variables)[1].role = "Y"
    /\ groupByRole(variables)[2].roleVars = <<variables[1]>>

\* the reference of a generation request to the variable of a role: its name
\* when the taxonomy has a variable of the role, the fallback only otherwise
CanonicalName(vs, role, fallback) ==
    IF PositionsOf(vs, role) = {} THEN fallback
    ELSE vs[NthOf(PositionsOf(vs, role), 1)].name

\* C22: in a generation request y is the name of the taxonomy's Y variable
\* and x the name of its X variable; the fallbacks "y" and "x" are used only
\* when the taxonomy has no variable of that role, never when one is present,
\* whatever its name after editing.
C22_CanonicalYX ==
    \A c \in 1..Len(genCalls) :
        /\ genCalls[c].prompt.y = CanonicalName(variables, "Y", "y")
        /\ genCalls[c].prompt.x = CanonicalName(variables, "X", "x")

\* the names of the variables of a role, in the order of the taxonomy
NamesOf(vs, role) ==
    [n \in 1..Cardinality(PositionsOf(vs, role)) |->
        vs[NthOf(PositionsOf(vs, role), n)].name]

\* the first n names, each but the first preceded by one space
RECURSIVE SpaceJoined(_, _)
SpaceJoined(names, n) ==
    IF n = 0 THEN ""
    ELSE IF n = 1 THEN names[1]
    ELSE SpaceJoined(names, n - 1) \o " " \o names[n]

SlotOf(vs, role) == SpaceJoined(NamesOf(vs, role), Len(NamesOf(vs, role)))

\* C23: in a generation request each of the controls, mechanisms, heteros
\* and fixed-effects references is the names of exactly the variables of
\* that role, in taxonomy order, joined by single spaces, and the empty
\* string when the role has no member.
C23_SpaceJoinedSlots ==
    \A c \in 1..Len(genCalls) :
        /\ genCalls[c].prompt.controls = SlotOf(variables, "Control")
        /\ genCalls[c].prompt.mechs = SlotOf(variables, "Mechanism")
        /\ genCalls[c].prompt.heteros = SlotOf(variables, "Hetero")
        /\ genCalls[c].prompt.fes = SlotOf(variables, "FixedEffect")

\* fixed effects year then city, and no control: the request carries
\* "year city" in its fixed-effects slot and "" in its controls slot
C23_Witness ==
    /\ Len(genCalls) = 1
    /\ FilterRole(variables, "FixedEffect") =
          << [name |-> "year", label |-> "l", role |-> "FixedEffect"],
             [name |-> "city", label |-> "l", role |-> "FixedEffect"] >>
    /\ genCalls[1].prompt.fes = "year city"
    /\ genCalls[1].prompt.controls = ""

\* C24: a successful generation response is recorded in the category that
\* was active when its request was issued: if the operator has switched the
\* category while the call was outstanding, the section is prepended to the
\* issue-time category and the category active at completion is unchanged.
C24_RecordedInIssueCategory ==
    [][(/\ lastEvent'.op = "generateDone"
        /\ ~GenFailed(lastEvent'.resp)
        /\ lastEvent'.call.activeTab # activeTab)
          => /\ generatedContent'[lastEvent'.call.activeTab] =
                   <<newSection(lastEvent'.call.method, lastEvent'.resp.text)>>
                      \o generatedContent[lastEvent'.call.activeTab]
             /\ generatedContent'[activeTab'] = generatedContent[activeTab]]_vars

\* requested in basic, completed while benchmark is shown
C24_Witness ==
    /\ lastEvent.op = "generateDone"
    /\ ~GenFailed(lastEvent.resp)
    /\ lastEvent.call.activeTab = "basic"
    /\ activeTab = "benchmark"
    /\ Len(generatedContent["basic"]) = 1
    /\ generatedContent["basic"][1].title = lastEvent.call.method
    /\ generatedContent["benchmark"] = <<>>

\* C25: when several generation calls are outstanding at once, every
\* response that completes successfully is applied and none is lost or
\* overwritten: the number of sections in the store grows by one with each
\* successful completion and by none otherwise, the section of the call that
\* completed last is at index 0 of its category whatever the order of issue,
\* and the other calls stay outstanding.
C25_SuccessfulCompletionsCounted ==
    [][(lastEvent'.op = "generateDone" /\ Len(genCalls) >= 2)
          => /\ \E i \in 1..Len(genCalls) :
                    /\ genCalls[i] = lastEvent'.call
                    /\ genCalls' = RemoveAt(genCalls, i)
             /\ IF GenFailed(lastEvent'.resp)
                THEN TotalSections' = TotalSections
                ELSE /\ TotalSections' = TotalSections + 1
                     /\ Head(generatedContent'[lastEvent'.call.activeTab]) =
                          newSection(lastEvent'.call.method, lastEvent'.resp.text)]_vars

\* the same, counting every response that does not throw: this is what the
\* program guarantees
EveryAnswerApplied ==
    [][(lastEvent'.op = "generateDone" /\ Len(genCalls) >= 2)
          => /\ \E i \in 1..Len(genCalls) :
                    /\ genCalls[i] = lastEvent'.call
                    /\ genCalls' = RemoveAt(genCalls, i)
             /\ IF generateThrows(lastEvent'.resp)
                THEN TotalSections' = TotalSections
                ELSE /\ TotalSections' = TotalSections + 1
                     /\ Head(generatedContent'[lastEvent'.call.activeTab]) =
                          newSection(lastEvent'.call.method, lastEvent'.resp.text)]_vars

\* C26: a successful suggestion response replaces the whole taxonomy: after
\* it completes, variables is exactly the returned list in the returned
\* order, so none of the variables retained from an earlier review, and none
\* of their renames and relabels, survives a new suggestion.
C26_SuggestionReplacesTaxonomy ==
    [][(lastEvent'.op = "fetchDone" /\ ~FetchFailed(lastEvent'.resp))
          => variables' = lastEvent'.resp.variables]_vars

\* two variables were retained from a review; the new suggestion of one
\* variable is all that is left
C26_Witness ==
    /\ lastEvent.op = "fetchDone"
    /\ ~FetchFailed(lastEvent.resp)
    /\ lastEvent.call.retained = 2
    /\ Len(lastEvent.resp.variables) = 1
    /\ variables = lastEvent.resp.variables
    /\ step = VariableReview

====
